---- MODULE Spec2Model ----
(***************************************************************************)
(* A model of fyodor's storage core:                                       *)
(*   - Entry and Block of src/structures/disk.rs (record codec and page),  *)
(*   - Node and Finger of src/structures/memory.rs (skip list).            *)
(* Byte buffers and byte strings are sequences of bytes; offsets are the   *)
(* source's, 0-based: the byte at offset i of buffer d is At(d, i).  A     *)
(* panic is an outcome of its own ("panic"): the mutations made before it  *)
(* stay.                                                                   *)
(***************************************************************************)
EXTENDS Integers, Sequences, FiniteSets, TLC

VARIABLES
    \* the page (Block)
    data,       \* Block.data: the page's byte region
    size,       \* Block.size: number of entries (the spec's entry_count)
    offset,     \* Block.offset: offset of the next entry (write_offset)
    res,        \* outcome of the last Block::insert: none / ok / FullBlock / panic
    lastKey,    \* arguments of the last Block::insert
    lastValue,
    hist,       \* the inserts that returned Ok: <<[key, value, start]>>
    \* a buffer handed to Entry::create
    ebuf,       \* the buffer (block_entry)
    ekey,       \* arguments of the last Entry::create
    evalue,
    eres,       \* its outcome: none / ok / panic
    ecreates,   \* number of Entry::create calls on the buffer
    \* the skip list and the Node::insert in progress
    nodes,      \* the nodes: <<[key, value, prev, next]>>, a node is its index
    list,       \* the head node, the `list` argument of Node::insert
    pc,         \* where Node::insert stands: idle / rng / finger / splice
    ikey,       \* arguments of the Node::insert in progress (or the last one)
    ivalue,
    levels,     \* its `levels`
    finger,     \* the Finger it got from bracketing_finger
    ires,       \* outcome of the last Node::insert: none / panic
    \* a call of Finger::bracketing_finger(list, key) on its own
    ftarget,    \* its `key` argument
    fout,       \* its outcome: [state: none / returned / panic, finger]
    \* the last read of the page
    rop         \* none / iterate / binary_search / index

pageVars == <<data, size, offset, res, lastKey, lastValue, hist>>

entryVars == <<ebuf, ekey, evalue, eres, ecreates>>

listVars == <<nodes, list, pc, ikey, ivalue, levels, finger, ires>>

fingerVars == <<ftarget, fout>>

readVars == <<rop>>

vars == <<pageVars, entryVars, listVars, fingerVars, readVars>>

-----------------------------------------------------------------------------
(* Bounds of the model *)

\* Block::insert is called at most this many times with success
MaxInserts == 21

\* at most this many inserted records differ from the smallest shape
MaxVaried == 2

\* data.len() of the pages explored
Caps == {30, 137}

\* Entry::create is called at most this many times on one buffer
MaxCreates == 2

\* the lengths of the buffers handed to Entry::create (11 is the tests')
BufSizes == {11, 140, 260}

\* the keys of the skip list
ListKeys == {1, 2, 3}

\* the lists handed to bracketing_finger have at most this many nodes
MaxNodes == 4

\* and their nodes at most this many levels
MaxListHeight == 3

\* lengths of the keys and values passed to insert; 128 is the first length
\* whose varint takes two bytes
KeyLens == {1, 128}

ValLens == {0, 1, 128}

-----------------------------------------------------------------------------
(* Program constants *)

SNAPSHOT_FREQUENCY == 10

\* size_of::<u32>()
SizeOfU32 == 4

\* the continuation bit of a varint byte (integer_encoding)
MSB == 128

\* data.len()
Cap(d) == Len(d)

\* d[i], 0-based
At(d, i) == d[i + 1]

-----------------------------------------------------------------------------
(* Varints (crate integer_encoding, as called by Entry) *)

RECURSIVE RequiredSpace(_)
\* VarInt::required_space: the number of 7-bit groups of v
RequiredSpace(v) == IF v < MSB THEN 1 ELSE 1 + RequiredSpace(v \div MSB)

RECURSIVE EncodeVar(_)
\* VarInt::encode_var: little-endian 7-bit groups, MSB set on all but the last
EncodeVar(v) ==
    IF v < MSB THEN <<v>> ELSE <<MSB + (v % MSB)>> \o EncodeVar(v \div MSB)

RECURSIVE Pow2(_)
Pow2(n) == IF n = 0 THEN 1 ELSE 2 * Pow2(n - 1)

RECURSIVE DecodeVarFrom(_, _, _, _, _)
\* u32::decode_var over d[pos .. end): None (ok = FALSE) when the bytes run out
\* or after ten continuation bytes.  The cast to u32 cuts values of 2^32 and
\* more, which no buffer of this model holds (TLC's integers end at 2^31 - 1
\* and it stops with an overflow error if one is ever met).
DecodeVarFrom(d, pos, end, shift, acc) ==
    IF pos >= end THEN [ok |-> FALSE, val |-> 0, width |-> 0]
    ELSE LET b    == At(d, pos)
             acc2 == IF b % MSB = 0 THEN acc ELSE acc + (b % MSB) * Pow2(shift)
             sh2  == shift + 7
         IN IF b < MSB THEN [ok |-> TRUE, val |-> acc2, width |-> sh2 \div 7]
            ELSE IF sh2 > 63 THEN [ok |-> FALSE, val |-> 0, width |-> 0]
            ELSE DecodeVarFrom(d, pos + 1, end, sh2, acc2)

DecodeVar(d, pos, end) == DecodeVarFrom(d, pos, end, 0, 0)

-----------------------------------------------------------------------------
(* Entry: a view over the bytes d[base .. end) *)

\* Entry::key_len_from_slice; .unwrap() panics on None (ok = FALSE)
KeyLenFromSlice(d, base, end) == DecodeVar(d, base, end)

\* a faulty variant: the value length decoded where the key length is
ValueLenFromSliceNoSkip(d, base, end) == DecodeVar(d, base, end)

\* Entry::value_len_from_slice
ValueLenFromSlice(d, base, end) ==
    LET k == KeyLenFromSlice(d, base, end)
    IN IF ~k.ok THEN k ELSE DecodeVar(d, base + k.width, end)

\* the bytes d[from .. from+n) as a sequence
Slice(d, from, n) == [i \in 1..n |-> At(d, from + i - 1)]

\* Entry::key: the slice [index .. index + key_size) of the view
EntryKey(d, base, end) ==
    LET k == KeyLenFromSlice(d, base, end)
        v == ValueLenFromSlice(d, base, end)
    IN IF ~k.ok \/ ~v.ok THEN [ok |-> FALSE, bytes |-> <<>>]
       ELSE LET index == k.width + v.width
            IN IF base + index + k.val > end THEN [ok |-> FALSE, bytes |-> <<>>]
               ELSE [ok |-> TRUE, bytes |-> Slice(d, base + index, k.val)]

\* Entry::value
EntryValue(d, base, end) ==
    LET k == KeyLenFromSlice(d, base, end)
        v == ValueLenFromSlice(d, base, end)
    IN IF ~k.ok \/ ~v.ok THEN [ok |-> FALSE, bytes |-> <<>>]
       ELSE LET value_index == k.width + v.width + k.val
            IN IF base + value_index + v.val > end THEN [ok |-> FALSE, bytes |-> <<>>]
               ELSE [ok |-> TRUE, bytes |-> Slice(d, base + value_index, v.val)]

\* Entry::len_from_slice: u32 sum of both varint widths and both lengths
LenFromSlice(d, base, end) ==
    LET k == KeyLenFromSlice(d, base, end)
        v == ValueLenFromSlice(d, base, end)
    IN IF ~k.ok \/ ~v.ok THEN [ok |-> FALSE, val |-> 0]
       ELSE [ok |-> TRUE, val |-> k.width + v.width + k.val + v.val]

\* d with the bytes of s written at from ..
WriteAt(d, from, s) ==
    [i \in 1..Len(d) |->
        IF i - 1 >= from /\ i - 1 < from + Len(s) THEN s[i - from] ELSE d[i]]

\* Entry::create over block_entry = d[base .. base+slen): the two varints, the
\* key, the value, each written in turn; a write that does not fit the slice
\* panics and leaves the writes before it.
EntryCreate(d, base, slen, key, value) ==
    LET key_len    == Len(key)
        key_size   == RequiredSpace(key_len)
        value_size == RequiredSpace(Len(value))
        d1 == WriteAt(d, base, EncodeVar(key_len))
        d2 == WriteAt(d1, base + key_size, EncodeVar(Len(value)))
        d3 == WriteAt(d2, base + key_size + value_size, key)
        value_index == key_size + value_size + key_len
        d4 == WriteAt(d3, base + value_index, value)
    IN IF key_size > slen THEN [ok |-> FALSE, data |-> d]
       ELSE IF value_size > slen - key_size THEN [ok |-> FALSE, data |-> d1]
       ELSE IF key_size + value_size + key_len > slen THEN [ok |-> FALSE, data |-> d2]
       ELSE IF value_index + Len(value) > slen THEN [ok |-> FALSE, data |-> d3]
       ELSE [ok |-> TRUE, data |-> d4]

-----------------------------------------------------------------------------
(* Block *)

\* u32::to_le_bytes
ToLeBytes(v) == [i \in 1..SizeOfU32 |-> (v \div Pow2(8 * (i - 1))) % 256]

\* u32::from_le_bytes
FromLeBytes(s) ==
    s[1] + 256 * s[2] + 65536 * s[3] + 16777216 * s[4]

\* Block::save_offset_snapshot, with self.size = sz and self.offset = off
SaveOffsetSnapshot(d, sz, off) ==
    LET snapshot_index == Cap(d) - (sz \div SNAPSHOT_FREQUENCY) * SizeOfU32
    IN WriteAt(d, snapshot_index, ToLeBytes(off))

\* Block::read_offset_snapshot: the slice panics when it leaves the buffer
ReadOffsetSnapshot(d, index) ==
    LET snapshot_index == Cap(d) - (index + 1) * SizeOfU32
    IN IF index < 0 \/ snapshot_index < 0 THEN [ok |-> FALSE, val |-> 0]
       ELSE [ok |-> TRUE, val |-> FromLeBytes(Slice(d, snapshot_index, SizeOfU32))]

\* the size Block::insert computes for the entry: both widths taken from key.len()
InsertEntrySize(key, value) ==
    LET key_varint_size   == RequiredSpace(Len(key))
        value_varint_size == RequiredSpace(Len(key))
    IN key_varint_size + value_varint_size + Len(key) + Len(value)

\* the space Block::insert takes to be free
RemainingSpace(d, off) == Cap(d) - off

\* the bytes the record really takes: both varints and both payloads
EncodedSize(key, value) ==
    RequiredSpace(Len(key)) + RequiredSpace(Len(value)) + Len(key) + Len(value)

\* std::cmp::Ordering of byte strings a and b (slices compare lexicographically)
RECURSIVE CmpBytes(_, _)
CmpBytes(a, b) ==
    IF a = <<>> /\ b = <<>> THEN "Equal"
    ELSE IF a = <<>> THEN "Less"
    ELSE IF b = <<>> THEN "Greater"
    ELSE IF Head(a) < Head(b) THEN "Less"
    ELSE IF Head(a) > Head(b) THEN "Greater"
    ELSE CmpBytes(Tail(a), Tail(b))

\* Block::get_at_offset followed by Entry::key: the key of the entry viewed at
\* data[off ..]; the slice panics when off is past the end
KeyAtOffset(d, off) ==
    IF off > Cap(d) THEN [ok |-> FALSE, bytes |-> <<>>] ELSE EntryKey(d, off, Cap(d))

RECURSIVE BinarySearchLoop(_, _, _, _)
\* the loop of Block::binary_search and its final read, with the comparator
\* |key| key.cmp(target).  left - 1 with left = 0 overflows: a panic with
\* overflow checks, and without them the wrapped index makes
\* read_offset_snapshot slice past the buffer, a panic too.
BinarySearchLoop(d, left, right, target) ==
    IF left < right
    THEN LET mid == left + (right - left) \div 2
             off == ReadOffsetSnapshot(d, mid)
             key == KeyAtOffset(d, off.val)
             order == CmpBytes(key.bytes, target)
         IN IF ~off.ok \/ ~key.ok THEN [ok |-> FALSE, val |-> 0]
            ELSE IF order = "Greater" THEN BinarySearchLoop(d, left, mid, target)
            ELSE IF order = "Less" THEN BinarySearchLoop(d, mid + 1, right, target)
            ELSE [ok |-> TRUE, val |-> off.val]
    ELSE ReadOffsetSnapshot(d, left - 1)

\* Block::binary_search
BinarySearch(d, sz, target) ==
    BinarySearchLoop(d, 0, sz \div SNAPSHOT_FREQUENCY, target)

RECURSIVE SnapshotSlotsLoop(_, _, _, _, _)
\* the indices Block::binary_search passes to read_offset_snapshot, in the
\* loop (mid) and after it (left - 1; -1 stands for the overflow of 0 - 1)
SnapshotSlotsLoop(d, left, right, target, acc) ==
    IF left < right
    THEN LET mid == left + (right - left) \div 2
             off == ReadOffsetSnapshot(d, mid)
             key == KeyAtOffset(d, off.val)
             order == CmpBytes(key.bytes, target)
         IN IF ~off.ok \/ ~key.ok THEN acc \cup {mid}
            ELSE IF order = "Greater"
            THEN SnapshotSlotsLoop(d, left, mid, target, acc \cup {mid})
            ELSE IF order = "Less"
            THEN SnapshotSlotsLoop(d, mid + 1, right, target, acc \cup {mid})
            ELSE acc \cup {mid}
    ELSE acc \cup {left - 1}

SnapshotSlotsRead(d, sz, target) ==
    SnapshotSlotsLoop(d, 0, sz \div SNAPSHOT_FREQUENCY, target, {})

RECURSIVE IterFrom(_, _, _, _, _)
\* BlockIterator::next, called until it returns None: the offsets of the
\* entries it yields, in order; ok = FALSE when a call panics
IterFrom(d, sz, idx, off, acc) ==
    IF idx >= sz THEN [ok |-> TRUE, offs |-> acc]
    ELSE IF off > Cap(d) THEN [ok |-> FALSE, offs |-> acc]
    ELSE LET len == LenFromSlice(d, off, Cap(d))
         IN IF ~len.ok THEN [ok |-> FALSE, offs |-> acc]
            ELSE IterFrom(d, sz, idx + 1, off + len.val, Append(acc, off))

\* IntoIterator for &Block, then the iteration to its end
Iterate(d, sz) == IterFrom(d, sz, 0, 0, <<>>)

RECURSIVE NthFrom(_, _, _, _, _)
\* Iterator::nth(n) on a BlockIterator standing at (idx, off): next() called
\* until the n-th item.  some = FALSE is None; panic when a next() panics
NthFrom(d, sz, idx, off, n) ==
    IF idx >= sz THEN [panic |-> FALSE, some |-> FALSE, off |-> 0]
    ELSE IF off > Cap(d) THEN [panic |-> TRUE, some |-> FALSE, off |-> 0]
    ELSE LET len == LenFromSlice(d, off, Cap(d))
         IN IF ~len.ok THEN [panic |-> TRUE, some |-> FALSE, off |-> 0]
            ELSE IF n = 0 THEN [panic |-> FALSE, some |-> TRUE, off |-> off]
            ELSE NthFrom(d, sz, idx + 1, off + len.val, n - 1)

\* Index<u32> for Block: the entry at the offset returned (ok), or a panic,
\* the function's own on None included
BlockIndex(d, sz, index) ==
    LET r == NthFrom(d, sz, 0, 0, index)
    IN [ok |-> r.some, off |-> r.off]

\* the key and the value of the n-th insert (0-based) with the given lengths:
\* the key starts with n, so that successive keys are distinct and ascending
KeyOf(n, kl) == [i \in 1..kl |-> IF i = 1 THEN n ELSE 7]

ValueOf(n, vl) == [i \in 1..vl |-> 64 + n]

\* the number of inserted records that are not of the smallest shape
Varied == Cardinality({i \in 1..Len(hist) : Len(hist[i].key) + Len(hist[i].value) > 1})

\* no page
PageIdle ==
    /\ data = <<>>
    /\ size = 0
    /\ offset = 0
    /\ res = "none"
    /\ lastKey = <<>>
    /\ lastValue = <<>>
    /\ hist = <<>>

\* no buffer
EntryIdle ==
    /\ ebuf = <<>>
    /\ ekey = <<>>
    /\ evalue = <<>>
    /\ eres = "none"
    /\ ecreates = 0

\* no list
ListIdle ==
    /\ nodes = <<>>
    /\ list = 0
    /\ pc = "idle"
    /\ ikey = 0
    /\ ivalue = 0
    /\ levels = 0
    /\ finger = [prev |-> <<>>, next |-> <<>>]
    /\ ires = "none"

FingerIdle ==
    /\ ftarget = 0
    /\ fout = [state |-> "none", finger |-> [prev |-> <<>>, next |-> <<>>]]

\* no read yet
ReadIdle == rop = "none"

\* Block::new over a zeroed buffer: size = 0, offset = 0, and data of c bytes.
\* (The transmute keeps the buffer's length as data's length although data
\* starts after the two u32 fields, so data's last 8 bytes lie past the buffer
\* handed in; the model takes data as c bytes of memory the page can use.)
PageInit ==
    /\ \E c \in Caps : data = [i \in 1..c |-> 0]
    /\ size = 0
    /\ offset = 0
    /\ res = "none"
    /\ lastKey = <<>>
    /\ lastValue = <<>>
    /\ hist = <<>>

Init == PageInit /\ EntryIdle /\ ListIdle /\ FingerIdle /\ ReadIdle

\* Block::insert(key, value)
Insert(key, value) ==
    LET offset_index    == offset
        remaining_space == RemainingSpace(data, offset)
        entry_size      == InsertEntrySize(key, value)
        size1           == size + 1
        data1 == IF size1 % SNAPSHOT_FREQUENCY = 0
                 THEN SaveOffsetSnapshot(data, size1, offset)
                 ELSE data
        created == EntryCreate(data1, offset_index, entry_size, key, value)
    IN /\ res # "panic"
       /\ lastKey' = key
       /\ lastValue' = value
       /\ IF entry_size > remaining_space
          THEN /\ res' = "FullBlock"
               /\ UNCHANGED <<data, size, offset, hist>>
          ELSE /\ size' = size1
               /\ offset' = offset + entry_size
               /\ data' = created.data
               /\ IF created.ok
                  THEN /\ res' = "ok"
                       /\ hist' = Append(hist, [key |-> key, value |-> value,
                                                start |-> offset_index])
                  ELSE /\ res' = "panic"
                       /\ UNCHANGED hist

InsertStep ==
    \E kl \in KeyLens, vl \in ValLens :
        /\ Len(hist) < MaxInserts
        /\ (kl + vl > 1) => Varied < MaxVaried
        /\ Insert(KeyOf(Len(hist), kl), ValueOf(Len(hist), vl))
        /\ UNCHANGED <<entryVars, listVars, fingerVars, readVars>>

Next == InsertStep

Spec == Init /\ [][Next]_vars

-----------------------------------------------------------------------------
(* The page's read operations, between the inserts *)

\* the arguments of the reads: keys below, at and above the page's keys
ReadTargets ==
    {<<>>, <<Len(hist)>>} \cup {hist[i].key : i \in {1, Len(hist)} \cap DOMAIN hist}

\* and indexes at both ends of the page and past it
ReadIndexes == {0, size - 1, size} \cap (0..size)

\* a read with the advance of BlockIterator::next applied to the Block's offset
BlockAfterReadAdvancing(d, sz, off) == [data |-> d, size |-> sz, offset |-> off + 1]

\* the Block a read leaves.  binary_search and index take &self, into_iter
\* takes &Block, and none assigns a field of the Block; next assigns idx and
\* offset of the BlockIterator
BlockAfterRead(d, sz, off) == [data |-> d, size |-> sz, offset |-> off]

\* a read op with the outcome r, which may be a panic
Read(op, r) ==
    LET block == BlockAfterRead(data, size, offset)
    IN /\ res # "panic"
       /\ r.ok \in BOOLEAN
       /\ rop' = op
       /\ data' = block.data
       /\ size' = block.size
       /\ offset' = block.offset
       /\ UNCHANGED <<res, lastKey, lastValue, hist>>
       /\ UNCHANGED <<entryVars, listVars, fingerVars>>

\* for entry in &block: into_iter, then next until None
IterateStep == Read("iterate", Iterate(data, size))

\* block.binary_search(|key| key.cmp(target))
BinarySearchStep ==
    \E target \in ReadTargets : Read("binary_search", BinarySearch(data, size, target))

\* block[index]
IndexStep ==
    \E index \in ReadIndexes : Read("index", BlockIndex(data, size, index))

NextRead == InsertStep \/ IterateStep \/ BinarySearchStep \/ IndexStep

SpecRead == Init /\ [][NextRead]_vars

-----------------------------------------------------------------------------
(* Entry::create on a buffer of its own, and the reads of the entry it returns *)

\* the keys and values handed to Entry::create; some bytes have the MSB set
EKeys == {KeyOf(n, kl) : n \in {0, 200}, kl \in {0, 1, 5, 128}}

EValues == {ValueOf(n, vl) : n \in {5, 150}, vl \in {0, 4, 128}}

\* a zeroed buffer
EntryInit ==
    /\ \E c \in BufSizes : ebuf = [i \in 1..c |-> 0]
    /\ ekey = <<>>
    /\ evalue = <<>>
    /\ eres = "none"
    /\ ecreates = 0

InitEntry == PageIdle /\ EntryInit /\ ListIdle /\ FingerIdle /\ ReadIdle

\* Entry::create(block_entry, key, value) with block_entry the whole buffer
Create(key, value) ==
    LET created == EntryCreate(ebuf, 0, Len(ebuf), key, value)
    IN /\ eres # "panic"
       /\ ecreates < MaxCreates
       /\ ecreates' = ecreates + 1
       /\ ekey' = key
       /\ evalue' = value
       /\ ebuf' = created.data
       /\ eres' = IF created.ok THEN "ok" ELSE "panic"

CreateStep ==
    /\ \E key \in EKeys, value \in EValues : Create(key, value)
    /\ UNCHANGED <<pageVars, listVars, fingerVars, readVars>>

NextEntry == CreateStep

SpecEntry == InitEntry /\ [][NextEntry]_vars

-----------------------------------------------------------------------------
(* The skip list: Node and Finger of memory.rs *)

MAX_HEIGHT == 12

\* FingerNode(None); FingerNode(Some(n)) is the node n >= 1
NoNode == 0

\* usize::MAX, what 0 - 1 wraps to without overflow checks.  It is only ever
\* compared with 0 and with vector lengths, so TLC's largest integer stands for it.
UsizeMax == 2147483647

\* Ord::cmp on keys
CmpKey(a, b) == IF a < b THEN "Less" ELSE IF a > b THEN "Greater" ELSE "Equal"

\* vec[i] = x on a Vec (i 0-based): an index at or past vec.len() panics
VecSet(vec, i, x) ==
    IF i < Len(vec) THEN [ok |-> TRUE, vec |-> [vec EXCEPT ![i + 1] = x]]
    ELSE [ok |-> FALSE, vec |-> vec]

\* Finger::empty: Vec::with_capacity reserves room and leaves both vectors empty
FingerEmpty(n) == [prev |-> <<>>, next |-> <<>>]

\* Node::new: an unlinked node
NodeNew(key, value) == [key |-> key, value |-> value, prev |-> <<>>, next |-> <<>>]

RECURSIVE FromNodeLoop(_, _, _, _)
\* the loop of Finger::from_node over i in i .. levels
FromNodeLoop(ns, n, i, f) ==
    IF i >= Len(ns[n].prev) THEN [panic |-> FALSE, finger |-> f]
    ELSE LET p == VecSet(f.prev, i, ns[n].prev[i + 1])
         IN IF ~p.ok \/ i >= Len(ns[n].next) THEN [panic |-> TRUE, finger |-> f]
            ELSE LET q == VecSet(f.next, i, ns[n].next[i + 1])
                 IN IF ~q.ok THEN [panic |-> TRUE, finger |-> f]
                    ELSE FromNodeLoop(ns, n, i + 1, [prev |-> p.vec, next |-> q.vec])

\* Finger::from_node
FromNode(ns, n) == FromNodeLoop(ns, n, 0, FingerEmpty(Len(ns[n].prev)))

RECURSIVE InnerLoop(_, _, _, _, _, _, _)
\* the inner while of bracketing_finger, entered with the loop variables given.
\* kind: "return" (the function returns r), "panic", or "exit" (the loop is
\* left, by its condition or by break, at node with finger f)
InnerLoop(ns, node, level, f, key, curr_order, next_order) ==
    IF ~(curr_order # "Less" /\ next_order # "Greater")
    THEN [kind |-> "exit", node |-> node, finger |-> f]
    ELSE LET curr == CmpKey(ns[node].key, key)
         IN IF curr = "Equal"
            THEN LET r == FromNode(ns, node)
                 IN [kind |-> IF r.panic THEN "panic" ELSE "return",
                     node |-> node, finger |-> r.finger]
            ELSE IF level >= Len(ns[node].next)
            THEN \* node.next.get(level) is None
                 LET p == VecSet(f.prev, level, node)
                     q == VecSet(f.next, level, NoNode)
                 IN IF ~p.ok \/ ~q.ok
                    THEN [kind |-> "panic", node |-> node, finger |-> f]
                    ELSE [kind |-> "exit", node |-> node,
                          finger |-> [prev |-> p.vec, next |-> q.vec]]
            ELSE LET next_node == ns[node].next[level + 1]
                     nxt       == CmpKey(ns[next_node].key, key)
                 IN IF nxt = "Equal"
                    THEN LET r == FromNode(ns, next_node)
                         IN [kind |-> IF r.panic THEN "panic" ELSE "return",
                             node |-> next_node, finger |-> r.finger]
                    ELSE InnerLoop(ns, next_node, level, f, key, curr, nxt)

RECURSIVE OuterLoop(_, _, _, _, _)
\* the outer while of bracketing_finger: while level != 0
OuterLoop(ns, node, level, f, key) ==
    IF level = 0 THEN [panic |-> FALSE, finger |-> f]
    ELSE LET r == InnerLoop(ns, node, level, f, key, "Equal", "Equal")
         IN IF r.kind = "panic" THEN [panic |-> TRUE, finger |-> r.finger]
            ELSE IF r.kind = "return" THEN [panic |-> FALSE, finger |-> r.finger]
            ELSE LET n == VecSet(r.finger.next, level, r.node)
                 IN IF ~n.ok \/ level >= Len(ns[r.node].prev)
                    THEN [panic |-> TRUE, finger |-> r.finger]
                    ELSE LET p == VecSet(r.finger.prev, level, ns[r.node].prev[level + 1])
                         IN IF ~p.ok THEN [panic |-> TRUE, finger |-> r.finger]
                            ELSE OuterLoop(ns, r.node, level - 1,
                                           [prev |-> p.vec, next |-> n.vec], key)

\* Finger::bracketing_finger(list, key).  list.next.len() - 1 overflows for a
\* head without links: a panic with overflow checks, usize::MAX without.
BracketingFinger(ns, head, key, overflow_checks) ==
    LET len   == Len(ns[head].next)
        level == IF len = 0 THEN UsizeMax ELSE len - 1
        f     == FingerEmpty(len)
    IN IF len = 0 /\ overflow_checks THEN [panic |-> TRUE, finger |-> f]
       ELSE IF CmpKey(key, ns[head].key) = "Less"
       THEN \* finger.next.fill(..) fills the elements the vector has
            [panic |-> FALSE,
             finger |-> [prev |-> f.prev, next |-> [i \in 1..Len(f.next) |-> head]]]
       ELSE OuterLoop(ns, head, level, f, key)

\* a list as the program can build one: Rc::new(Node::new(key, value))
ListInit ==
    /\ \E k \in ListKeys : nodes = <<NodeNew(k, k)>>
    /\ list = 1
    /\ pc = "idle"
    /\ ikey = 0
    /\ ivalue = 0
    /\ levels = 0
    /\ finger = FingerEmpty(0)
    /\ ires = "none"

InitList == PageIdle /\ EntryIdle /\ ListInit /\ FingerIdle /\ ReadIdle

\* Node::insert(key, value, list) is called: Node::new, levels = 0
InsertCall(key, value) ==
    /\ pc = "idle"
    /\ pc' = "rng"
    /\ ikey' = key
    /\ ivalue' = value
    /\ levels' = 0
    /\ finger' = FingerEmpty(0)
    /\ ires' = "none"
    /\ UNCHANGED <<nodes, list>>

\* one evaluation of the while condition of Node::insert, with the draw r of
\* rng.gen_range(1..4)
RngTrial(r) ==
    /\ pc = "rng"
    /\ IF r = 1 /\ levels < MAX_HEIGHT
       THEN levels' = levels + 1 /\ pc' = pc
       ELSE levels' = levels /\ pc' = "finger"
    /\ UNCHANGED <<nodes, list, ikey, ivalue, finger, ires>>

\* Node::insert calls Finger::bracketing_finger(&list, &node.key)
InsertFinger(overflow_checks) ==
    LET r == BracketingFinger(nodes, list, ikey, overflow_checks)
    IN /\ pc = "finger"
       /\ finger' = r.finger
       /\ IF r.panic
          THEN pc' = "idle" /\ ires' = "panic"
          ELSE pc' = "splice" /\ ires' = ires
       /\ UNCHANGED <<nodes, list, ikey, ivalue, levels>>

\* the rest of Node::insert: println!, the empty loop over levels..=0, todo!()
InsertTodo ==
    /\ pc = "splice"
    /\ pc' = "idle"
    /\ ires' = "panic"
    /\ UNCHANGED <<nodes, list, ikey, ivalue, levels, finger>>

NextList ==
    \/ (\E key \in ListKeys, value \in ListKeys : InsertCall(key, value))
            /\ UNCHANGED <<pageVars, entryVars, fingerVars, readVars>>
    \/ (\E r \in 1..3 : RngTrial(r)) /\ UNCHANGED <<pageVars, entryVars, fingerVars, readVars>>
    \/ (\E oc \in BOOLEAN : InsertFinger(oc)) /\ UNCHANGED <<pageVars, entryVars, fingerVars, readVars>>
    \/ InsertTodo /\ UNCHANGED <<pageVars, entryVars, fingerVars, readVars>>

SpecList == InitList /\ [][NextList]_vars

-----------------------------------------------------------------------------
(* Finger::bracketing_finger on linked lists.  Nothing in the code links a
   node, so the lists are drawn as the function's argument: every list of up
   to MaxNodes nodes with increasing keys, the head first and highest, each
   node linked on its levels to its nearest neighbours of that level.  A
   link cell holds an Rc, never a null: a node's `next` has an element for
   each level on which it has a successor, the head's `prev` has none. *)

\* the key of the i-th node of a list
KeyOfNode(i) == 2 * i

\* the levels of each node: the head is as high as any node
Heights(n) ==
    {h \in [1..n -> 1..MaxListHeight] : \A i \in 1..n : h[i] <= h[1]}

\* the nodes before i (after i) that have level lv (1-based)
Before(h, i, lv) == {j \in 1..(i - 1) : h[j] >= lv}

After(h, i, lv) == {j \in (i + 1)..Len(h) : h[j] >= lv}

Highest(S) == CHOOSE j \in S : \A k \in S : k <= j

Lowest(S) == CHOOSE j \in S : \A k \in S : j <= k

\* the list of n nodes with levels h, as Vecs of link cells
LinkedList(h) ==
    [i \in 1..Len(h) |->
        [key   |-> KeyOfNode(i),
         value |-> KeyOfNode(i),
         prev  |-> [lv \in 1..(IF i = 1 THEN 0 ELSE h[i]) |-> Highest(Before(h, i, lv))],
         next  |-> [lv \in 1..Cardinality({l \in 1..h[i] : After(h, i, l) # {}})
                       |-> Lowest(After(h, i, lv))]]]

FingerInit ==
    /\ \E n \in 1..MaxNodes : \E h \in Heights(n) : nodes = LinkedList(h)
    /\ list = 1
    /\ pc = "idle"
    /\ ikey = 0
    /\ ivalue = 0
    /\ levels = 0
    /\ finger = FingerEmpty(0)
    /\ ires = "none"
    /\ FingerIdle

InitFinger == PageIdle /\ EntryIdle /\ FingerInit /\ ReadIdle

\* a search that stores into the head's link cells what it should store into
\* the Finger: node.next[level].store(..) for finger.next[level] = ..
ListAfterSearchStoring(ns, head) ==
    [ns EXCEPT ![head].next = [lv \in DOMAIN @ |-> head]]

\* the nodes a search leaves.  bracketing_finger holds the list by &Rc<Node>,
\* reads the link cells through as_ptr() and clones what it reads; its only
\* stores go to the Vecs of its local `finger`
ListAfterSearch(ns, head) == ns

\* Finger::bracketing_finger(&list, &key), built with or without overflow checks
FingerCall(key, overflow_checks) ==
    LET r == BracketingFinger(nodes, list, key, overflow_checks)
    IN /\ ftarget' = key
       /\ fout' = [state |-> IF r.panic THEN "panic" ELSE "returned",
                   finger |-> r.finger]
       /\ nodes' = ListAfterSearch(nodes, list)
       /\ UNCHANGED <<list, pc, ikey, ivalue, levels, finger, ires>>
       /\ UNCHANGED <<pageVars, entryVars, readVars>>

NextFinger ==
    \E key \in 1..(KeyOfNode(MaxNodes) + 1), oc \in BOOLEAN : FingerCall(key, oc)

SpecFinger == InitFinger /\ [][NextFinger]_vars

-----------------------------------------------------------------------------
(* Claims about Block::insert *)

\* C1: an insert whose encoded record does not fit in data.len() - offset
\* returns FullBlock and leaves size, offset and every byte as they were.
C1_FullBlockLeavesPage ==
    [][(EncodedSize(lastKey', lastValue') > Cap(data) - offset)
          => (res' = "FullBlock" /\ UNCHANGED <<size, offset, data>>)]_vars

\* C2: the record region [0, offset) and the snapshot region (the last
\* 4 * floor(size / 10) bytes) never overlap.
C2_RegionsDisjoint ==
    offset <= Cap(data) - SizeOfU32 * (size \div SNAPSHOT_FREQUENCY)

\* C3: after N successful inserts, snapshot i, for every i < floor(N / 10),
\* reads the start offset of the record with 0-based number (i+1)*10 - 1.
C3_SnapshotsHoldRecordStarts ==
    res # "panic" =>
        \A i \in 0..((Len(hist) \div SNAPSHOT_FREQUENCY) - 1) :
            ReadOffsetSnapshot(data, i) =
                [ok |-> TRUE, val |-> hist[(i + 1) * SNAPSHOT_FREQUENCY].start]

\* C4: binary_search for the key of any record of the page returns normally a
\* snapshot offset at or before the record, fewer than SNAPSHOT_FREQUENCY
\* records before it, and the record's own offset when it is a snapshot record.
C4_BinarySearchBrackets ==
    res # "panic" =>
        \A i \in 1..Len(hist) :
            LET r == BinarySearch(data, size, hist[i].key)
            IN /\ r.ok
               /\ r.val <= hist[i].start
               /\ \E j \in 1..i : /\ hist[j].start = r.val
                                  /\ i - j < SNAPSHOT_FREQUENCY
               /\ (i % SNAPSHOT_FREQUENCY = 0) => r.val = hist[i].start

RECURSIVE SumEncoded(_)
SumEncoded(h) ==
    IF h = <<>> THEN 0 ELSE EncodedSize(Head(h).key, Head(h).value) + SumEncoded(Tail(h))

\* C5: offset is the sum of the encoded lengths of the records inserted so far.
C5_OffsetIsSumOfLengths ==
    res # "panic" => offset = SumEncoded(hist)

\* C6: iteration yields exactly size records, the i-th with the key and the
\* value of the i-th insert.
C6_IterationYieldsInserts ==
    res # "panic" =>
        LET it == Iterate(data, size)
        IN /\ it.ok
           /\ Len(it.offs) = Len(hist)
           /\ \A i \in 1..Len(hist) :
                 /\ EntryKey(data, it.offs[i], Cap(data)) = [ok |-> TRUE, bytes |-> hist[i].key]
                 /\ EntryValue(data, it.offs[i], Cap(data)) = [ok |-> TRUE, bytes |-> hist[i].value]

\* C14: index(i) is the i-th inserted record for every i < size, and a panic
\* for every i >= size.
C14_IndexIsIthInsert ==
    res # "panic" =>
        /\ \A i \in 0..(Len(hist) - 1) :
              LET r == BlockIndex(data, size, i)
              IN /\ r.ok
                 /\ EntryKey(data, r.off, Cap(data)) = [ok |-> TRUE, bytes |-> hist[i + 1].key]
                 /\ EntryValue(data, r.off, Cap(data)) = [ok |-> TRUE, bytes |-> hist[i + 1].value]
        /\ \A i \in size..(size + 2) : ~BlockIndex(data, size, i).ok

\* C15: an insert, successful or not, leaves every byte before the offset it
\* found as it was.
C15_RecordsNeverMutated ==
    [][\A i \in 0..(offset - 1) : At(data', i) = At(data, i)]_vars

\* the targets searched for: the keys of the page and a key right after each
SearchTargets == {<<n>> : n \in 0..(Len(hist) - 1)} \cup {<<n, 1>> : n \in 0..(Len(hist) - 1)}

\* the target lies between the first and the last key of the page
InKeyRange(t) ==
    /\ hist # <<>>
    /\ CmpBytes(hist[1].key, t) # "Greater"
    /\ CmpBytes(t, hist[Len(hist)].key) # "Greater"

\* the numbers (1-based) of the snapshot records with a key <= t
SnapshotsAtOrBefore(t) ==
    {k \in 1..(Len(hist) \div SNAPSHOT_FREQUENCY) :
        CmpBytes(hist[k * SNAPSHOT_FREQUENCY].key, t) # "Greater"}

\* C16: for a target in the page's key range, binary_search returns the offset
\* of the snapshot record with the greatest key <= target.
C16_BinarySearchGreatestSnapshot ==
    res # "panic" =>
        \A t \in SearchTargets :
            InKeyRange(t) =>
                LET r == BinarySearch(data, size, t)
                IN /\ r.ok
                   /\ \E k \in SnapshotsAtOrBefore(t) :
                         /\ \A k2 \in SnapshotsAtOrBefore(t) : k2 <= k
                         /\ r.val = hist[k * SNAPSHOT_FREQUENCY].start

-----------------------------------------------------------------------------
(* Claims about Entry::create *)

\* C7: when the encoding of key and value fits the buffer, Entry::create
\* returns and the entry reads back key_len = (len(key), its varint width),
\* value_len = (len(value), its varint width), key() = key, value() = value.
C7_CreateThenReadIsConsistent ==
    (eres # "none" /\ EncodedSize(ekey, evalue) <= Len(ebuf)) =>
        /\ eres = "ok"
        /\ KeyLenFromSlice(ebuf, 0, Len(ebuf)) =
              [ok |-> TRUE, val |-> Len(ekey), width |-> RequiredSpace(Len(ekey))]
        /\ ValueLenFromSlice(ebuf, 0, Len(ebuf)) =
              [ok |-> TRUE, val |-> Len(evalue), width |-> RequiredSpace(Len(evalue))]
        /\ EntryKey(ebuf, 0, Len(ebuf)) = [ok |-> TRUE, bytes |-> ekey]
        /\ EntryValue(ebuf, 0, Len(ebuf)) = [ok |-> TRUE, bytes |-> evalue]

\* an entry whose key and value lengths have different varint widths was
\* created over the bytes of an earlier one
C7_Witness ==
    /\ eres = "ok"
    /\ ecreates = 2
    /\ Len(ekey) = 128
    /\ Len(evalue) = 4

-----------------------------------------------------------------------------
(* Claims about Node::insert *)

\* the key is the key of a node of the list
KeyPresent(k) == \E n \in 1..Len(nodes) : nodes[n].key = k

\* C10: a Node::insert of a key already in the list ends reporting
\* DuplicateKey, with every node and link of the list as it was.
C10_DuplicateKeyReported ==
    [][(pc # "idle" /\ pc' = "idle" /\ KeyPresent(ikey))
          => (ires' = "DuplicateKey" /\ UNCHANGED <<nodes, list>>)]_vars

\* C13: every insert of a key that is not in the list completes with success:
\* no Node::insert of such a key ends in any other way.
C13_InsertOfNewKeyCompletes ==
    (pc = "idle" /\ ires # "none" /\ ~KeyPresent(ikey)) => ires = "ok"

-----------------------------------------------------------------------------
(* Claims about Finger::bracketing_finger *)

\* the levels of the list: those of its head (memory.rs:78)
ListLevels == Len(nodes[list].next)

\* node n is linked on level lv (0-based)
OnLevel(n, lv) == n = list \/ lv < Len(nodes[n].prev)

\* the last node of level lv with a key below k, NoNode when there is none
LastBelow(lv, k) ==
    LET S == {n \in 1..Len(nodes) : OnLevel(n, lv) /\ nodes[n].key < k}
    IN IF S = {} THEN NoNode
       ELSE CHOOSE n \in S : \A m \in S : nodes[m].key <= nodes[n].key

\* the first node of level lv with a key at or above k, NoNode when there is none
FirstAtOrAbove(lv, k) ==
    LET S == {n \in 1..Len(nodes) : OnLevel(n, lv) /\ nodes[n].key >= k}
    IN IF S = {} THEN NoNode
       ELSE CHOOSE n \in S : \A m \in S : nodes[n].key <= nodes[m].key

\* bracketing_finger has been called and the outcome is in fout
FingerCalled == fout.state # "none"

\* C11: for a target at or above the head's key that is not in the list, the
\* Finger returned holds at every level of the list the last node below the
\* target as prev and the first node at or above it as next (none: empty).
C11_FingerBracketsTarget ==
    (FingerCalled /\ ftarget >= nodes[list].key /\ ~KeyPresent(ftarget)) =>
        /\ fout.state = "returned"
        /\ Len(fout.finger.prev) = ListLevels
        /\ Len(fout.finger.next) = ListLevels
        /\ \A lv \in 0..(ListLevels - 1) :
              /\ fout.finger.prev[lv + 1] = LastBelow(lv, ftarget)
              /\ fout.finger.next[lv + 1] = FirstAtOrAbove(lv, ftarget)

\* C17: for a target below the head's key the Finger returned has one entry
\* for each level of the head, with next the head and prev empty.
C17_TargetBeforeHead ==
    (FingerCalled /\ ftarget < nodes[list].key) =>
        /\ fout.state = "returned"
        /\ Len(fout.finger.prev) = ListLevels
        /\ Len(fout.finger.next) = ListLevels
        /\ \A lv \in 1..ListLevels :
              /\ fout.finger.next[lv] = list
              /\ fout.finger.prev[lv] = NoNode

\* the levels of node n, and its neighbour cells at level lv (1-based) as
\* FingerNodes
NodeLevels(n) == IF n = list THEN Len(nodes[n].next) ELSE Len(nodes[n].prev)

LinkOrNone(vec, lv) == IF lv <= Len(vec) THEN vec[lv] ELSE NoNode

\* C18: for a target that is the key of a node, the Finger returned holds that
\* node's own prev and next at every level of the node.
C18_ExactMatchFromNode ==
    \A n \in 1..Len(nodes) :
        (FingerCalled /\ nodes[n].key = ftarget) =>
            /\ fout.state = "returned"
            /\ Len(fout.finger.prev) = NodeLevels(n)
            /\ Len(fout.finger.next) = NodeLevels(n)
            /\ \A lv \in 1..NodeLevels(n) :
                  /\ fout.finger.prev[lv] = LinkOrNone(nodes[n].prev, lv)
                  /\ fout.finger.next[lv] = LinkOrNone(nodes[n].next, lv)

\* C19: for a target at or above the head's key that is not in the list,
\* bracketing_finger does not return before level 0 is resolved: the Finger
\* it returns has the level-0 bracket.
C19_DescendsToLevelZero ==
    (fout.state = "returned" /\ ftarget >= nodes[list].key /\ ~KeyPresent(ftarget)) =>
        /\ Len(fout.finger.prev) >= 1
        /\ Len(fout.finger.next) >= 1
        /\ fout.finger.prev[1] = LastBelow(0, ftarget)
        /\ fout.finger.next[1] = FirstAtOrAbove(0, ftarget)

-----------------------------------------------------------------------------
(* Claims about the height Node::insert draws *)

\* C21: the height Node::insert has chosen once the trials are over is
\* between 1 and MAX_HEIGHT, whatever the draws were.
C21_HeightInRange ==
    (pc \in {"finger", "splice"} \/ (pc = "idle" /\ ires # "none")) =>
        (1 <= levels /\ levels <= MAX_HEIGHT)

-----------------------------------------------------------------------------
(* Claims about the Block's read operations *)

\* C24: every snapshot slot binary_search reads, in the loop and after it, has
\* an index in [0, size / SNAPSHOT_FREQUENCY), for every page and target.
C24_SnapshotSlotsInRange ==
    res # "panic" =>
        \A t \in SearchTargets :
            \A slot \in SnapshotSlotsRead(data, size, t) :
                0 <= slot /\ slot < size \div SNAPSHOT_FREQUENCY

====
